---- MODULE Spec2Model ----
(***************************************************************************)
(* r53_dns_updater: a dynamic-DNS client that keeps one Route53 'A' record *)
(* equal to the host's public IP address.  The model follows               *)
(* src/r53_dns_updater.py: DynamicDnsRecord.__init__ (zone listing, zone   *)
(* location, public-IP discovery, record inspection) and                   *)
(* update_target_record_value (TTL choice, decision, UPSERT, SNS).         *)
(*                                                                         *)
(* Representation.  A dotted name is the sequence of its labels, so that   *)
(* 'a.b'.split('.') is <<"a","b">> and the provider's fully-qualified      *)
(* 'a.b.' is <<"a","b","">>.  A Python Optional is a sequence of length    *)
(* 0 (None) or 1.  An HTTP body is a sequence of tokens, "\n" being the    *)
(* newline character.  An ARN is the sequence of its ':'-separated fields. *)
(***************************************************************************)
EXTENDS Integers, Sequences, FiniteSets, TLC

VARIABLES
    target_record,   \* argument <target_record>: labels of the record name
    max_tries,       \* argument --max-tries
    sns_arn,         \* argument --sns (Optional)
    ttl_arg,         \* argument ttl of update_target_record_value (Optional)
    hosted_zones,    \* provider: the account's hosted zones, in listing order
    rrsets,          \* provider: zone id -> record sets, in listing order
    run              \* run id -> the DynamicDnsRecord object and its progress

vars == <<target_record, max_tries, sns_arn, ttl_arg, hosted_zones, rrsets, run>>

args == <<target_record, max_tries, sns_arn, ttl_arg>>

----------------------------------------------------------------------------
(* Bounds of the model *)

MaxTries == 2        \* largest --max-tries explored
MaxPages == 4        \* record-listing requests explored per run

(* Program constants *)

ZoneMaxItems == 100  \* MaxItems of list_hosted_zones_by_name
RecordMaxItems == 3  \* MaxItems of list_resource_record_sets
DefaultTtl == 60     \* TTL used when there is neither override nor record

Runs == {1, 2}

----------------------------------------------------------------------------
(* Python values *)

None == <<>>
Some(x) == <<x>>
\* faulty variant: a value that is given counts, 0 too
TruthyPresent(opt) == opt # None
Truthy(opt) == opt # None /\ opt[1] # 0

Last(s) == s[Len(s)]
Front(s) == SubSeq(s, 1, Len(s) - 1)
Min(a, b) == IF a < b THEN a ELSE b

----------------------------------------------------------------------------
(* Names and the provider's listing order *)

\* the provider returns fully-qualified names: a trailing empty label
Fqdn(name) == IF name # <<>> /\ Last(name) = "" THEN name ELSE Append(name, "")

\* '.'.join(x.split('.')[:-1]) : cut off the trailing '.'
CutTrailingDot(name) == IF name = <<>> THEN <<>> ELSE Front(name)

LabelOrder == <<"", "a", "com", "example", "host", "org", "other", "sub">>
LabelRank(l) == CHOOSE i \in DOMAIN LabelOrder : LabelOrder[i] = l

TypeOrder == <<"A", "NS", "TXT">>
TypeRank(t) == CHOOSE i \in DOMAIN TypeOrder : TypeOrder[i] = t

SetIdOrder == <<"", "w", "x", "y", "z">>
SetIdRank(s) == CHOOSE i \in DOMAIN SetIdOrder : SetIdOrder[i] = s

\* names are ordered label by label from the root label towards the host
RECURSIVE NameCmp(_, _)
NameCmp(a, b) ==
    IF a = <<>> /\ b = <<>> THEN 0
    ELSE IF a = <<>> THEN -1
    ELSE IF b = <<>> THEN 1
    ELSE IF LabelRank(Last(a)) < LabelRank(Last(b)) THEN -1
    ELSE IF LabelRank(Last(a)) > LabelRank(Last(b)) THEN 1
    ELSE NameCmp(Front(a), Front(b))

\* -1, 0, 1: (name, type) of a record set against a start position
StartCmp(rec, name, type) ==
    LET c == NameCmp(rec.Name, Fqdn(name))
    IN  IF c # 0 THEN c
        ELSE IF TypeRank(rec.Type) < TypeRank(type) THEN -1
        ELSE IF TypeRank(rec.Type) > TypeRank(type) THEN 1
        ELSE 0

RecLess(r1, r2) ==
    LET c == StartCmp(r1, r2.Name, r2.Type)
    IN  c < 0 \/ (c = 0 /\ SetIdRank(r1.SetIdentifier) < SetIdRank(r2.SetIdentifier))

RRSet(name, type, sid, ttl, values) ==
    [Name |-> Fqdn(name), Type |-> type, SetIdentifier |-> sid,
     TTL |-> ttl, ResourceRecords |-> values]

\* a record set put at its place in a zone's listing
InsertRRSet(recs, rec) ==
    LET before == {i \in DOMAIN recs : RecLess(recs[i], rec)}
        n == Cardinality(before)
    IN  SubSeq(recs, 1, n) \o <<rec>> \o SubSeq(recs, n + 1, Len(recs))

RECURSIVE ZoneOf(_)
ZoneOf(recs) ==
    IF recs = <<>> THEN <<>> ELSE InsertRRSet(ZoneOf(Tail(recs)), Head(recs))

----------------------------------------------------------------------------
(* The provider (Route53), as the program's calls see it *)

\* list_hosted_zones_by_name(MaxItems='100'): one page, never followed up
ListHostedZonesByName(zones) ==
    [HostedZones |-> SubSeq(zones, 1, Min(Len(zones), ZoneMaxItems))]

\* list_resource_record_sets(StartRecordName, StartRecordType, MaxItems='3'):
\* the listing begins with the first record set whose (name, type) is not
\* before the start position; no StartRecordIdentifier is ever given
ListResourceRecordSets(recs, name, type) ==
    LET from == {i \in DOMAIN recs : StartCmp(recs[i], name, type) >= 0}
        first == IF from = {} THEN Len(recs) + 1
                 ELSE CHOOSE i \in from : \A j \in from : i <= j
        nxt == first + RecordMaxItems
    IN  [ResourceRecordSets |-> SubSeq(recs, first, Min(Len(recs), nxt - 1)),
         IsTruncated |-> nxt <= Len(recs),
         NextRecordName |-> IF nxt <= Len(recs) THEN recs[nxt].Name ELSE <<>>,
         NextRecordType |-> IF nxt <= Len(recs) THEN recs[nxt].Type ELSE "A"]

\* change_resource_record_sets with one UPSERT of a simple record set: it is
\* refused when record sets with a routing policy hold that name and type
UpsertAccepted(recs, name, type) ==
    \A i \in DOMAIN recs :
        (recs[i].Name = Fqdn(name) /\ recs[i].Type = type)
            => recs[i].SetIdentifier = ""

Upsert(recs, name, type, ttl, values) ==
    LET new == RRSet(name, type, "", ttl, values)
        same == {i \in DOMAIN recs :
                    recs[i].Name = new.Name /\ recs[i].Type = type}
    IN  IF same = {} THEN InsertRRSet(recs, new)
        ELSE [i \in DOMAIN recs |-> IF i \in same THEN new ELSE recs[i]]

----------------------------------------------------------------------------
(* The program's pure computations *)

\* r53_hosted_zones, lines 86-94: {zone_name: zone_id}, a later zone of the
\* same name replacing an earlier one
ZoneDict(zones, dict) ==
    LET zone_name(i) == CutTrailingDot(zones[i].Name)
        zone_id(i) == Last(zones[i].Id)
        names == {zone_name(i) : i \in DOMAIN zones}
        \* the zone that the loop assigns last under a name
        named(n) == {i \in DOMAIN zones : zone_name(i) = n}
        last(n) == CHOOSE i \in named(n) : \A j \in named(n) : j <= i
    IN  [n \in names \cup DOMAIN dict |->
            IF n \in names THEN zone_id(last(n)) ELSE dict[n]]

\* faulty variant: the most general owning zone is preferred to the most specific
RECURSIVE StripToZoneGeneral(_, _)
StripToZoneGeneral(domain, valid_domains) ==
    LET rest == IF domain = <<>> THEN None
                ELSE StripToZoneGeneral(Tail(domain), valid_domains)
    IN  IF rest # None THEN rest
        ELSE IF domain \in valid_domains THEN Some(domain)
        ELSE None

\* domain_name, lines 116-128: drop the first label until the rest is a zone
\* name; None stands for the IndexError of 'del domain[0]' on an empty list
RECURSIVE StripToZone(_, _)
StripToZone(domain, valid_domains) ==
    IF domain \in valid_domains THEN Some(domain)
    ELSE IF domain = <<>> THEN None
    ELSE StripToZone(Tail(domain), valid_domains)

\* str.strip('\n'), line 159
RECURSIVE StripNewlines(_)
StripNewlines(text) ==
    IF text # <<>> /\ Head(text) = "\n" THEN StripNewlines(Tail(text))
    ELSE IF text # <<>> /\ Last(text) = "\n" THEN StripNewlines(Front(text))
    ELSE text

\* ipaddress.ip_address: the literals it parses, and those with is_global
IpLiterals == {"8.8.8.8", "1.1.1.1", "10.0.0.5", "127.0.0.1",
               "169.254.1.1", "240.0.0.1"}
GlobalIps == {"8.8.8.8", "1.1.1.1"}

ParsesAsIp(candidate) == Len(candidate) = 1 /\ candidate[1] \in IpLiterals

\* faulty variant: the is_global test is left out
IsValidPublicIpParseOnly(candidate) == ParsesAsIp(candidate)

\* lines 163-170: the candidate is returned only if it parses and is global
IsValidPublicIp(candidate) ==
    ParsesAsIp(candidate) /\ candidate[1] \in GlobalIps

\* get_current_record, lines 216-224: the last matching 'A' record set wins
RECURSIVE FindOurRecord(_, _, _)
FindOurRecord(record_sets, target, found) ==
    IF record_sets = <<>> THEN found
    ELSE LET record == Head(record_sets)
             hit == CutTrailingDot(record.Name) = target /\ record.Type = "A"
         IN  FindOurRecord(Tail(record_sets), target,
                 IF hit THEN [targets |-> record.ResourceRecords,
                              ttl |-> Some(record.TTL)]
                 ELSE found)

\* get_current_record, lines 227-239
ValidateOurRecord(found) ==
    IF Len(found.targets) > 1
        THEN [err |-> "InvalidRecordTargetError", ip |-> None, ttl |-> None]
    ELSE IF Len(found.targets) < 1
        THEN [err |-> "", ip |-> None, ttl |-> found.ttl]
    ELSE [err |-> "", ip |-> Some(found.targets[1]), ttl |-> found.ttl]

\* update_target_record_value, lines 276-285
EffectiveTtl(ttl, current_ttl) ==
    IF Truthy(ttl) THEN ttl[1]
    ELSE IF Truthy(current_ttl) THEN current_ttl[1]
    ELSE DefaultTtl

\* faulty variant: only the address is compared
OutdatedIpOnly(actual_ip, current_ip, ttl, current_ttl) ==
    Some(actual_ip) # current_ip

\* faulty variant: the raw override, not the TTL chosen, is compared with the record's
OutdatedRawOverride(actual_ip, current_ip, ttl, current_ttl) ==
    Some(actual_ip) # current_ip \/ ttl_arg # current_ttl

\* update_target_record_value, lines 288-300
Outdated(actual_ip, current_ip, ttl, current_ttl) ==
    IF Some(actual_ip) # current_ip THEN TRUE
    ELSE IF Some(ttl) # current_ttl THEN TRUE
    ELSE FALSE

\* publish_to_sns, line 257: sns_arn.split(':')[3]
RegionOf(arn) == IF Len(arn) >= 4 THEN Some(arn[4]) ELSE None

----------------------------------------------------------------------------
(* Inputs explored *)

Targets == { <<"host", "a", "example", "com">>,
             <<"example", "com">>,
             <<"host", "example", "com", "">> }

HostedZone(name, id) == [Name |-> Fqdn(name), Id |-> <<"", "hostedzone", id>>]
ZoneParent == HostedZone(<<"example", "com">>, "Z1")
ZoneChild == HostedZone(<<"a", "example", "com">>, "Z2")
ZoneOther == HostedZone(<<"other", "org">>, "Z3")
ZoneIds == {"Z1", "Z2", "Z3"}

\* an account with one zone more than one page of the zone listing holds:
\* 1.com, 2.com, ... and, behind them in the order of names, example.com
ManyZones ==
    [i \in 1..ZoneMaxItems |-> HostedZone(<<ToString(i), "com">>, "Z0")]
        \o <<ZoneParent>>

ZoneListings ==
    { <<>>, <<ZoneParent>>, <<ZoneParent, ZoneChild>>, <<ZoneOther>>, ManyZones }

TopicArns == { <<"arn", "aws", "sns", "us-east-1", "123456789012", "dyndns">>,
               <<"dyndns">> }

TtlValues == {0, 60, 300}

\* bodies the lookup service may answer with
Bodies == { <<"8.8.8.8", "\n">>, <<"1.1.1.1">>, <<"10.0.0.5", "\n">>,
            <<" ", "8.8.8.8", "\n">> }

\* the 'A' record sets that may hold the target name
TargetGroups(t) ==
    { <<>> }
    \cup { <<RRSet(t, "A", "", ttl, <<ip>>)>> : ttl \in TtlValues, ip \in GlobalIps }
    \cup { <<RRSet(t, "A", "", 60, <<"8.8.8.8", "1.1.1.1">>)>>,
           <<RRSet(t, "A", "x", 60, <<"1.1.1.1", "10.0.0.5">>),
             RRSet(t, "A", "y", 60, <<"8.8.8.8">>)>>,
           <<RRSet(t, "A", "x", 60, <<"8.8.8.8">>),
             RRSet(t, "A", "y", 300, <<"1.1.1.1">>)>>,
           <<RRSet(t, "A", "x", 60, <<"8.8.8.8">>),
             RRSet(t, "A", "y", 60, <<"8.8.8.8", "1.1.1.1">>)>>,
           <<RRSet(t, "A", "w", 60, <<"8.8.8.8">>),
             RRSet(t, "A", "x", 60, <<"8.8.8.8">>),
             RRSet(t, "A", "y", 60, <<"8.8.8.8">>),
             RRSet(t, "A", "z", 60, <<"8.8.8.8">>)>> }

\* other record sets of the zone
Neighbours(t) ==
    << RRSet(<<"example", "com">>, "NS", "", 300, <<"ns1">>),
       RRSet(t, "TXT", "", 300, <<"v=spf1">>),
       RRSet(<<"sub">> \o t, "A", "", 60, <<"10.0.0.5">>),
       RRSet(<<"sub">> \o t, "TXT", "", 60, <<"hello">>) >>

CrowdedGroups(t) ==
    { <<>>,
      <<RRSet(t, "A", "", 60, <<"8.8.8.8">>)>>,
      <<RRSet(t, "A", "", 300, <<"1.1.1.1">>)>>,
      <<RRSet(t, "A", "x", 60, <<"8.8.8.8">>),
        RRSet(t, "A", "y", 300, <<"1.1.1.1">>)>> }

ZoneContents(t) ==
    { ZoneOf(g) : g \in TargetGroups(t) }
    \cup { ZoneOf(g \o Neighbours(t)) : g \in CrowdedGroups(t) }

----------------------------------------------------------------------------
(* State *)

IdleRun ==
    [pc |-> "idle", err |-> "",
     r53_hosted_zones |-> None, domain_name |-> None, hosted_zone |-> None,
     tries |-> 0, responses |-> <<>>, actual_ip |-> None,
     start_record_name |-> <<>>, start_record_type |-> "A",
     record_sets |-> <<>>, pages |-> 0,
     current_ip |-> None, current_ttl |-> None,
     ttl |-> None, outdated |-> FALSE,
     write_ok |-> FALSE, delivered |-> FALSE, calls |-> <<>>,
     \* records kept of what the run did and when
     changebatch |-> None, page_log |-> <<>>,
     observed_after |-> {}, wrote_after |-> {}]

InitArgs ==
    /\ target_record \in Targets
    /\ max_tries \in 1..MaxTries
    /\ sns_arn \in {None} \cup {Some(a) : a \in TopicArns}
    /\ ttl_arg \in {None} \cup {Some(t) : t \in TtlValues}

InitProvider ==
    /\ hosted_zones \in ZoneListings
    /\ \E home \in ZoneIds, content \in ZoneContents(target_record) :
          /\ hosted_zones = <<>> => home = "Z1" /\ content = <<>>
          \* no run gets as far as the records of the large account
          /\ hosted_zones = ManyZones => content = <<>>
          /\ hosted_zones # <<>> =>
                \E i \in DOMAIN hosted_zones : Last(hosted_zones[i].Id) = home
          /\ rrsets = [z \in ZoneIds |-> IF z = home THEN content ELSE <<>>]

Init ==
    /\ InitArgs
    /\ InitProvider
    /\ run = [r \in Runs |-> IdleRun]

Finished(r) == run[r].pc \in {"done", "exit", "raised"}

Raise(r, e) == [run EXCEPT ![r].pc = "raised", ![r].err = e]

----------------------------------------------------------------------------
(* Actions: one per external call of a run, with the code around it *)

Called(r, name) == Append(run[r].calls, name)

\* faulty variant: the error is logged and the code goes on
FatalLogged(obj, e) == [obj EXCEPT !.err = e]

\* 'raise ValueError(...)', lines 174-176, and
\* 'raise InvalidRecordTargetError(msg)', line 232, inside __init__
Fatal(obj, e) == [obj EXCEPT !.pc = "raised", !.err = e]

\* __init__, lines 63-71: the zone listing behind r53_hosted_zones, then
\* domain_name and the id of the owning zone
Construct(r) ==
    /\ run[r].pc = "idle"
    /\ \/ LET zones == ListHostedZonesByName(hosted_zones).HostedZones
              dict == ZoneDict(zones, <<>>)
              domain == StripToZone(target_record, DOMAIN dict)
          IN  run' = [run EXCEPT
                  ![r].calls = Called(r, "list_hosted_zones_by_name"),
                  ![r].r53_hosted_zones = Some(dict),
                  ![r].domain_name = domain,
                  ![r].hosted_zone =
                      IF domain = None THEN None ELSE Some(dict[domain[1]]),
                  ![r].tries = IF domain = None THEN 0 ELSE 1,
                  ![r].pc = IF domain = None THEN "exit" ELSE "get_public_ip",
                  ![r].err = IF domain = None THEN "SystemExit" ELSE ""]
       \/ run' = [Raise(r, "ClientError") EXCEPT
                  ![r].calls = Called(r, "list_hosted_zones_by_name")]
    /\ UNCHANGED <<args, hosted_zones, rrsets>>

\* get_public_ip, lines 155-178: one pass of the retry loop
GetPublicIp(r) ==
    /\ run[r].pc = "get_public_ip"
    /\ \/ \E body \in Bodies :
            LET candidate_ip == StripNewlines(body)
                seen == [run EXCEPT
                            ![r].calls = Called(r, "requests.get"),
                            ![r].responses = Append(@, body)]
            IN  run' =
                  IF IsValidPublicIp(candidate_ip)
                    THEN [seen EXCEPT
                            ![r].actual_ip = Some(candidate_ip[1]),
                            ![r].start_record_name = target_record,
                            ![r].start_record_type = "A",
                            ![r].observed_after =
                                {q \in Runs \ {r} : run[q].actual_ip # None},
                            ![r].pc = "get_current_record"]
                  ELSE IF run[r].tries >= max_tries
                    THEN [seen EXCEPT ![r] = Fatal(@, "ValueError")]
                  ELSE [seen EXCEPT ![r].tries = @ + 1]
       \/ run' = [Raise(r, "ConnectionError") EXCEPT
                  ![r].calls = Called(r, "requests.get")]
    /\ UNCHANGED <<args, hosted_zones, rrsets>>

\* faulty variant: the type of the cursor is not carried over
NextStartNameOnly(response) == <<response.NextRecordName, "A">>

\* lines 210-211: where the next page starts
NextStart(response) == <<response.NextRecordName, response.NextRecordType>>

\* faulty variant: the record is never looked at, every run takes it as absent
GetCurrentRecordSkipped(r) ==
    /\ run[r].pc = "get_current_record"
    /\ run' = [run EXCEPT ![r].pc = "constructed"]
    /\ UNCHANGED <<args, hosted_zones, rrsets>>

\* get_current_record, lines 193-239: one page of the listing and, after the
\* last page, the search for our record and its validation
GetCurrentRecord(r) ==
    /\ run[r].pc = "get_current_record"
    /\ run[r].pages < MaxPages
    /\ \/ LET response == ListResourceRecordSets(
                              rrsets[run[r].hosted_zone[1]],
                              run[r].start_record_name,
                              run[r].start_record_type)
              record_sets == run[r].record_sets \o response.ResourceRecordSets
              got == [run EXCEPT
                         ![r].calls = Called(r, "list_resource_record_sets"),
                         ![r].pages = @ + 1,
                         ![r].page_log = Append(@,
                             [StartRecordName |-> run[r].start_record_name,
                              StartRecordType |-> run[r].start_record_type,
                              IsTruncated |-> response.IsTruncated,
                              NextRecordName |-> response.NextRecordName,
                              NextRecordType |-> response.NextRecordType,
                              Count |-> Len(response.ResourceRecordSets)]),
                         ![r].record_sets = record_sets]
              ours == ValidateOurRecord(
                         FindOurRecord(record_sets, target_record,
                                       [targets |-> <<>>, ttl |-> None]))
          IN  run' =
                IF response.IsTruncated
                  THEN [got EXCEPT
                          ![r].start_record_name = NextStart(response)[1],
                          ![r].start_record_type = NextStart(response)[2]]
                ELSE IF ours.err # ""
                  THEN [got EXCEPT ![r] = Fatal(@, ours.err)]
                ELSE [got EXCEPT ![r].current_ip = ours.ip,
                                 ![r].current_ttl = ours.ttl,
                                 ![r].pc = "constructed"]
       \/ run' = [Raise(r, "ClientError") EXCEPT
                  ![r].calls = Called(r, "list_resource_record_sets"),
                  ![r].pages = @ + 1]
    /\ UNCHANGED <<args, hosted_zones, rrsets>>

\* faulty variant: the notifier is called whether or not a topic was given
TopicGivenAlways == TRUE

\* 'if self.sns_arn:', line 319
TopicGiven == sns_arn # None /\ sns_arn[1] # <<"">>

\* faulty variant: the record's old value is sent instead of the public address
ChangeBatchOldValue(r, ttl) ==
    [Action |-> "UPSERT", Name |-> target_record, Type |-> "A", TTL |-> ttl,
     ResourceRecords |->
        <<IF run[r].current_ip # None THEN run[r].current_ip[1]
          ELSE run[r].actual_ip[1]>>]

\* faulty variant: the record is named after the zone, not after the target
ChangeBatchZoneName(r, ttl) ==
    [Action |-> "UPSERT", Name |-> run[r].domain_name[1], Type |-> "A",
     TTL |-> ttl, ResourceRecords |-> <<run[r].actual_ip[1]>>]

\* lines 304-311: the change sent to Route53
ChangeBatch(r, ttl) ==
    [Action |-> "UPSERT", Name |-> target_record, Type |-> "A", TTL |-> ttl,
     ResourceRecords |-> <<run[r].actual_ip[1]>>]

\* update_target_record_value(ttl), lines 273-323, up to the call of
\* publish_to_sns
UpdateWithTtl(r, ttl_given) ==
    /\ run[r].pc = "constructed"
    /\ LET ttl == EffectiveTtl(ttl_given, run[r].current_ttl)
           outdated == Outdated(run[r].actual_ip[1], run[r].current_ip,
                                ttl, run[r].current_ttl)
           zone == run[r].hosted_zone[1]
           change == ChangeBatch(r, ttl)
           decided == [run EXCEPT ![r].ttl = Some(ttl),
                                  ![r].outdated = outdated]
           asked == [decided EXCEPT
                       ![r].changebatch = Some(change),
                       ![r].calls = Called(r, "change_resource_record_sets")]
           applied == [asked EXCEPT
                       ![r].write_ok = TRUE,
                       ![r].wrote_after =
                           {q \in Runs \ {r} : run[q].write_ok}]
       IN  \/ /\ ~outdated
              /\ run' = [decided EXCEPT ![r].pc = "done"]
              /\ UNCHANGED rrsets
           \/ /\ outdated
              /\ UpsertAccepted(rrsets[zone], change.Name, change.Type)
              /\ rrsets' = [rrsets EXCEPT ![zone] =
                     Upsert(@, change.Name, change.Type, change.TTL,
                            change.ResourceRecords)]
              /\ run' =
                   IF TopicGiven
                     THEN [applied EXCEPT
                             ![r].calls = Append(@, "publish_to_sns"),
                             ![r].pc = "publish_to_sns"]
                   ELSE [applied EXCEPT ![r].pc = "done"]
           \/ /\ outdated
              /\ run' = [asked EXCEPT ![r].pc = "raised",
                                      ![r].err = "ClientError"]
              /\ UNCHANGED rrsets
    /\ UNCHANGED <<args, hosted_zones>>

\* the method called with the override as it is
UpdateTargetRecordValue(r) == UpdateWithTtl(r, ttl_arg)

\* publish_to_sns, lines 250-263
PublishToSns(r) ==
    /\ run[r].pc = "publish_to_sns"
    /\ LET aws_region == RegionOf(sns_arn[1])
           sent == [run EXCEPT ![r].calls = Called(r, "sns.publish"),
                               ![r].pc = "done"]
       IN  \/ /\ ~TopicGiven
              /\ run' = Raise(r, "ValueError")
           \/ /\ TopicGiven
              /\ aws_region = None
              /\ run' = Raise(r, "IndexError")
           \/ /\ TopicGiven
              /\ aws_region # None
              /\ \/ run' = Raise(r, "BotoCoreError")
                 \/ run' = [sent EXCEPT ![r].delivered = TRUE]
                 \/ run' = sent
    /\ UNCHANGED <<args, hosted_zones, rrsets>>

Step(r) ==
    \/ Construct(r)
    \/ GetPublicIp(r)
    \/ GetCurrentRecord(r)
    \/ UpdateTargetRecordValue(r)
    \/ PublishToSns(r)

\* one run of the program
Next == Step(1)

Spec == Init /\ [][Next]_vars

\* two runs with the same arguments, the second after the first has ended
InitSeq ==
    /\ target_record = <<"host", "a", "example", "com">>
    /\ max_tries = 1
    /\ sns_arn \in {None} \cup {Some(a) : a \in TopicArns}
    /\ ttl_arg \in {None} \cup {Some(t) : t \in TtlValues}
    /\ hosted_zones = <<ZoneParent, ZoneChild>>
    /\ \E content \in ZoneContents(target_record) :
          rrsets = [z \in ZoneIds |-> IF z = "Z2" THEN content ELSE <<>>]
    /\ run = [r \in Runs |-> IdleRun]

\* run r may start once the run before it has ended
MayStart(r) == IF r = 1 THEN TRUE ELSE Finished(r - 1)

NextSeq ==
    \E r \in Runs :
        \/ MayStart(r) /\ Construct(r)
        \/ GetPublicIp(r)
        \/ GetCurrentRecord(r)
        \/ UpdateTargetRecordValue(r)
        \/ PublishToSns(r)

SpecSeq == InitSeq /\ [][NextSeq]_vars

----------------------------------------------------------------------------
(* What a run did, read off its calls *)

Count(calls, name) == Cardinality({i \in DOMAIN calls : calls[i] = name})
Writes(r) == Count(run[r].calls, "change_resource_record_sets")
Lookups(r) == Count(run[r].calls, "requests.get")
Notifications(r) == Count(run[r].calls, "publish_to_sns")

\* the run has computed its TTL and its decision
Decided(r) == run[r].ttl # None

\* the 'A' record sets of the target name in a zone's listing
TargetSets(recs) ==
    {i \in DOMAIN recs :
        recs[i].Name = Fqdn(target_record) /\ recs[i].Type = "A"}

IsSuffix(z, t) ==
    Len(z) <= Len(t) /\ SubSeq(t, Len(t) - Len(z) + 1, Len(t)) = z

----------------------------------------------------------------------------
(* Claims *)

\* C1: after a run that ends without an error, the target name holds exactly
\* one 'A' value in the located zone, that value is the public address the run
\* resolved, and its TTL is the TTL the run computed, whether or not the run
\* wrote.
C1_RecordMatchesAfterRun ==
    \A r \in Runs :
        run[r].pc = "done" =>
            LET recs == rrsets[run[r].hosted_zone[1]]
            IN  /\ Cardinality(TargetSets(recs)) = 1
                /\ \A i \in TargetSets(recs) :
                      /\ recs[i].ResourceRecords = <<run[r].actual_ip[1]>>
                      /\ recs[i].TTL = run[r].ttl[1]

C3_TtlPrecedence ==
    \A r \in Runs :
        Decided(r) =>
            run[r].ttl[1] =
                IF ttl_arg # None THEN ttl_arg[1]
                ELSE IF run[r].current_ip # None THEN run[r].current_ttl[1]
                ELSE 60

\* C4: of two runs in succession with the same arguments and the same public
\* address, the first writes exactly when the record is out of date and the
\* second issues no write and no notification.
C4_SecondRunIdle ==
    (/\ run[1].pc = "done"
     /\ Decided(2)
     /\ run[2].actual_ip = run[1].actual_ip) =>
        /\ Writes(1) = (IF \/ run[1].current_ip # run[1].actual_ip
                           \/ run[1].current_ttl # run[1].ttl
                        THEN 1 ELSE 0)
        /\ ~run[2].outdated
        /\ Writes(2) = 0
        /\ Notifications(2) = 0

\* C4 witness: the first run wrote, the second ended without writing
C4_Witness ==
    /\ run[1].pc = "done"
    /\ Writes(1) = 1
    /\ run[2].pc = "done"
    /\ run[2].actual_ip = run[1].actual_ip
    /\ Writes(2) = 0

\* C5: domain_name selects the zone whose name is the longest dot-label suffix
\* of the record name, and when no zone name is such a suffix the run exits
\* fatally having made no call after the zone listing.
C5_LongestSuffixZone ==
    \A r \in Runs :
        run[r].r53_hosted_zones # None =>
            LET names == DOMAIN run[r].r53_hosted_zones[1]
                owners == {z \in names : IsSuffix(z, target_record)}
            IN  /\ owners # {} =>
                      /\ run[r].domain_name # None
                      /\ run[r].domain_name[1] \in owners
                      /\ \A z \in owners : Len(z) <= Len(run[r].domain_name[1])
                      /\ run[r].hosted_zone =
                            Some(run[r].r53_hosted_zones[1][run[r].domain_name[1]])
                      /\ run[r].err # "SystemExit"
                /\ owners = {} =>
                      /\ run[r].pc = "exit"
                      /\ run[r].err = "SystemExit"
                      /\ run[r].calls = <<"list_hosted_zones_by_name">>

\* C5 witness: parent and child zone are both registered and the child is chosen
C5_Witness ==
    \E r \in Runs :
        /\ run[r].r53_hosted_zones # None
        /\ {<<"example", "com">>, <<"a", "example", "com">>}
              \subseteq DOMAIN run[r].r53_hosted_zones[1]
        /\ run[r].domain_name = Some(<<"a", "example", "com">>)
        /\ run[r].pc = "get_public_ip"

\* the 'A' record sets in the accumulated listing whose name, cut of its
\* trailing '.', is the target name
Matching(r) ==
    {i \in DOMAIN run[r].record_sets :
        /\ CutTrailingDot(run[r].record_sets[i].Name) = target_record
        /\ run[r].record_sets[i].Type = "A"}

\* get_current_record has seen the last page and has returned or raised
Inspected(r) ==
    \/ run[r].pc \in {"constructed", "publish_to_sns", "done"}
    \/ run[r].pc = "raised" /\ run[r].err = "InvalidRecordTargetError"
    \/ Writes(r) > 0

\* C6: whenever the listing holds an 'A' record set of the target name with
\* more than one value, get_current_record fails with
\* InvalidRecordTargetError and the run issues no write.
C6_MultiValueRefused ==
    \A r \in Runs :
        (/\ Inspected(r)
         /\ \E i \in Matching(r) :
               Len(run[r].record_sets[i].ResourceRecords) > 1) =>
            /\ run[r].err = "InvalidRecordTargetError"
            /\ Writes(r) = 0

\* C7: get_current_record fails with the ambiguous-record error when the
\* listing holds two or more 'A' record sets of the target name, returns
\* (None, None) when it holds none, and returns the set's value and TTL when
\* it holds exactly one single-valued set.
C7_InspectorOutcome ==
    \A r \in Runs :
        Inspected(r) =>
            LET sets == run[r].record_sets
                n == Cardinality(Matching(r))
            IN  /\ n >= 2 => run[r].err = "InvalidRecordTargetError"
                /\ n = 0 =>
                      /\ run[r].err # "InvalidRecordTargetError"
                      /\ run[r].current_ip = None
                      /\ run[r].current_ttl = None
                /\ \A i \in Matching(r) :
                      (n = 1 /\ Len(sets[i].ResourceRecords) = 1) =>
                          /\ run[r].err # "InvalidRecordTargetError"
                          /\ run[r].current_ip = Some(sets[i].ResourceRecords[1])
                          /\ run[r].current_ttl = Some(sets[i].TTL)

\* a response the resolver may accept: an IP literal, possibly between
\* newlines, that is globally routable
Acceptable(body) ==
    \E ip \in GlobalIps :
        body \in {<<ip>>, <<ip, "\n">>, <<"\n", ip>>, <<"\n", ip, "\n">>}

\* C8: get_public_ip returns the first acceptable response if it is among the
\* first max_tries responses and fails after exactly max_tries requests
\* otherwise; it never returns a malformed or non-global address, never issues
\* more than max_tries requests, and each invalid response uses one attempt.
C8_BoundedValidatedRetry ==
    \A r \in Runs :
        LET seen == run[r].responses
            n == Len(seen)
            returned == run[r].actual_ip # None
            failed == run[r].pc = "raised" /\ run[r].err = "ValueError"
        IN  /\ Lookups(r) <= max_tries
            /\ n <= max_tries
            /\ \A i \in 1..(n - 1) : ~Acceptable(seen[i])
            /\ returned =>
                  /\ n >= 1
                  /\ Acceptable(seen[n])
                  /\ run[r].actual_ip[1] \in GlobalIps
                  /\ \E k \in DOMAIN seen[n] : seen[n][k] = run[r].actual_ip[1]
            /\ failed =>
                  /\ Lookups(r) = max_tries
                  /\ n = max_tries
                  /\ ~Acceptable(seen[n])
            /\ run[r].pc = "get_public_ip" =>
                  /\ run[r].tries = n + 1
                  /\ n = 0 \/ ~Acceptable(seen[n])
            /\ (n >= 1 /\ Acceptable(seen[n])) => returned

\* C8 witness: an invalid response used one attempt and the next was returned
C8_Witness ==
    \E r \in Runs :
        /\ run[r].actual_ip # None
        /\ Len(run[r].responses) = 2
        /\ ~Acceptable(run[r].responses[1])

\* C9: publish_to_sns is invoked exactly once if the run's write succeeded
\* and an SNS topic was configured, and not at all otherwise.
C9_NotifyOncePerWrite ==
    \A r \in Runs :
        Notifications(r) =
            IF run[r].write_ok /\ sns_arn # None THEN 1 ELSE 0

\* C9 witness: a run with a topic wrote, notified once and ended
C9_Witness ==
    \E r \in Runs :
        /\ run[r].pc = "done"
        /\ run[r].write_ok
        /\ sns_arn # None
        /\ Notifications(r) = 1

\* C10: publish_to_sns never raises to its caller, so a run whose DNS write
\* succeeded still completes without error.
C10_NotifierNeverRaises ==
    \A r \in Runs : run[r].write_ok => run[r].pc # "raised"


\* the three fatal errors of a run: no owning zone, address discovery
\* exhausted, ambiguous record
FatalErrors == {"SystemExit", "ValueError", "InvalidRecordTargetError"}

\* the run went through zone location, address resolution and record
\* inspection without an error
ReadsSucceeded(r) ==
    /\ run[r].domain_name # None
    /\ run[r].hosted_zone # None
    /\ run[r].actual_ip # None
    /\ run[r].page_log # <<>>
    /\ ~Last(run[r].page_log).IsTruncated
    /\ run[r].err \notin FatalErrors

\* a run that ended in a fatal error has sent no change and no notification
FatalRunIsSilent ==
    \A r \in Runs :
        run[r].err \in FatalErrors =>
            /\ Finished(r)
            /\ Writes(r) = 0
            /\ run[r].changebatch = None
            /\ ~run[r].write_ok
            /\ Notifications(r) = 0
            /\ Count(run[r].calls, "sns.publish") = 0

\* a change is only sent by a run whose reads have all succeeded
WriteAfterReads ==
    \A r \in Runs : Writes(r) > 0 => ReadsSucceeded(r)

\* the records of the provider only change in a step of a constructed run
\* that has no fatal error, before and after
RecordsChangeOnlyAfterReads ==
    rrsets' # rrsets =>
        \E r \in Runs :
            /\ run[r].pc = "constructed"
            /\ ReadsSucceeded(r)
            /\ run'[r].err \notin FatalErrors
            /\ run'[r].write_ok

\* C11: a run that ends in a fatal error (no owning zone, address discovery
\* exhausted, ambiguous record) leaves the provider's records unchanged: the
\* write is only attempted after zone location, address resolution and record
\* inspection have succeeded, and such a run sends no notification.
C11_FatalLeavesRecordsUnchanged ==
    /\ [](FatalRunIsSilent /\ WriteAfterReads)
    /\ [][RecordsChangeOnlyAfterReads]_vars

\* C11 witness: the run was refused an ambiguous record of a zone that holds
\* records, with a notification topic configured
C11_Witness ==
    \E r \in Runs :
        /\ run[r].pc = "raised"
        /\ run[r].err = "InvalidRecordTargetError"
        /\ run[r].hosted_zone # None
        /\ TargetSets(rrsets[run[r].hosted_zone[1]]) # {}
        /\ sns_arn # None


\* ---- the command line, main() ----

\* the decimal digits that int() reads
Digits == <<"0", "1", "2", "3", "4", "5", "6", "7", "8", "9">>
DigitValue(c) == (CHOOSE i \in DOMAIN Digits : Digits[i] = c) - 1
IsDigit(c) == \E i \in DOMAIN Digits : Digits[i] = c

\* the value of a text of decimal digits
RECURSIVE DecimalValue(_)
DecimalValue(text) ==
    IF text = <<>> THEN 0
    ELSE DecimalValue(Front(text)) * 10 + DigitValue(Last(text))

\* int(x) of line 357: of None a TypeError, of a text that is not a number
\* a ValueError, else the number
PyInt(x) ==
    IF x = None THEN [err |-> "TypeError", value |-> 0]
    ELSE IF x[1] = <<>> \/ \E i \in DOMAIN x[1] : ~IsDigit(x[1][i])
      THEN [err |-> "ValueError", value |-> 0]
    ELSE [err |-> "", value |-> DecimalValue(x[1])]

\* args['--ttl'] as docopt hands it over: None when the option is not given,
\* else its text, character by character
TtlOptions ==
    {None, Some(<<"0">>), Some(<<"6", "0">>), Some(<<"3", "0", "0">>),
     Some(<<"6", "0", "s">>)}

\* the state in which main is entered
InitMain ==
    /\ target_record \in Targets
    /\ max_tries \in 1..MaxTries
    /\ sns_arn \in {None} \cup {Some(a) : a \in TopicArns}
    /\ ttl_arg \in TtlOptions
    /\ InitProvider
    /\ run = [r \in Runs |-> IdleRun]

\* line 357: the conversion of the option, then the call of the method
MainUpdate(r) ==
    /\ run[r].pc = "constructed"
    /\ LET ttl == PyInt(ttl_arg)
       IN  \/ /\ ttl.err = ""
              /\ UpdateWithTtl(r, Some(ttl.value))
           \/ /\ ttl.err # ""
              /\ run' = Raise(r, ttl.err)
              /\ UNCHANGED <<args, hosted_zones, rrsets>>

NextMain ==
    \/ Construct(1)
    \/ GetPublicIp(1)
    \/ GetCurrentRecord(1)
    \/ MainUpdate(1)
    \/ PublishToSns(1)

\* one invocation of the command
SpecMain == InitMain /\ [][NextMain]_vars

\* the exit code of the process: 0 when main returns, 1 after sys.exit(1)
\* and after an exception nobody caught
ExitCode(r) == IF run[r].pc = "done" THEN 0 ELSE 1

\* the errors of the network and of the services called
ServiceErrors == {"ClientError", "ConnectionError", "BotoCoreError"}

\* C12: every invocation of main in which no service call fails, with or
\* without --ttl, with or without --sns, ends with exit code 0 when the run
\* wrote or found nothing to do, and ends with a non-zero exit code exactly
\* when a fatal error occurred (zone not found, ambiguous record, address
\* discovery exhausted).
C12_ExitCodes ==
    \A r \in Runs :
        (Finished(r) /\ run[r].err \notin ServiceErrors) =>
            /\ ExitCode(r) # 0 <=> run[r].err \in FatalErrors
            /\ (ReadsSucceeded(r) /\ run[r].err = "") => ExitCode(r) = 0


\* the record sets of a zone that are not 'A' record sets of the target name
OtherSets(recs) ==
    SelectSeq(recs, LAMBDA rec :
        ~(rec.Name = Fqdn(target_record) /\ rec.Type = "A"))

\* the change a run has sent is an UPSERT of (target name, 'A') carrying the
\* TTL the run computed and the resolved public address as its only value
SentChangeIsOurs(r) ==
    run[r].changebatch # None =>
        LET change == run[r].changebatch[1]
        IN  /\ change.Action = "UPSERT"
            /\ Fqdn(change.Name) = Fqdn(target_record)
            /\ change.Type = "A"
            /\ run[r].ttl # None /\ change.TTL = run[r].ttl[1]
            /\ run[r].actual_ip # None
            /\ change.ResourceRecords = <<run[r].actual_ip[1]>>

\* a step leaves alone every zone but the located one and, in that zone, every
\* record set that is not the target's 'A' record set; a step that changes
\* the records is the one write of a run and leaves one 'A' record set under
\* the target name, as the change describes it
FrameOfWrite ==
    /\ \A z \in ZoneIds : OtherSets(rrsets'[z]) = OtherSets(rrsets[z])
    /\ rrsets' # rrsets =>
          \E r \in Runs :
              /\ Writes(r) = 0
              /\ Count(run'[r].calls, "change_resource_record_sets") = 1
              /\ run'[r].write_ok
              /\ \A z \in ZoneIds \ {run[r].hosted_zone[1]} :
                    rrsets'[z] = rrsets[z]
              /\ LET recs == rrsets'[run[r].hosted_zone[1]]
                 IN  \E i \in DOMAIN recs :
                        /\ TargetSets(recs) = {i}
                        /\ recs[i].TTL = run'[r].ttl[1]
                        /\ recs[i].ResourceRecords = <<run[r].actual_ip[1]>>

\* C13: a run issues at most one write; the write is an upsert, in the
\* located zone, of the record set (target name, type A) with the effective
\* TTL and the resolved public address as its only value; every other record
\* set of the provider (other names, other types of the same name, other
\* zones) is left unchanged.
C13_SingleUpsertFrame ==
    /\ [](\A r \in Runs : Writes(r) <= 1 /\ SentChangeIsOurs(r))
    /\ [][FrameOfWrite]_vars

\* C13 witness: a run has replaced the target's 'A' record set in a zone that
\* also holds a record set of another type under the target name and record
\* sets of other names
C13_Witness ==
    \E r \in Runs :
        /\ run[r].write_ok
        /\ run[r].current_ip # None
        /\ LET recs == rrsets[run[r].hosted_zone[1]]
           IN  /\ \E i \in DOMAIN recs :
                     recs[i].Name = Fqdn(target_record) /\ recs[i].Type = "TXT"
               /\ \E i \in DOMAIN recs : recs[i].Name # Fqdn(target_record)
               /\ \E i \in TargetSets(recs) :
                     recs[i].ResourceRecords = <<run[r].actual_ip[1]>>


\* the place of an external call in the order of a run: line 71 (zone
\* listing), line 72 (address lookups), line 73 (record listing), lines
\* 314-316 (write), lines 319-323 and 258-261 (notification)
CallOrder ==
    <<{"list_hosted_zones_by_name"}, {"requests.get"},
      {"list_resource_record_sets"}, {"change_resource_record_sets"},
      {"publish_to_sns", "sns.publish"}>>
CallRank(name) == CHOOSE i \in DOMAIN CallOrder : name \in CallOrder[i]
Listings(r) == Count(run[r].calls, "list_resource_record_sets")

\* the calls of a run are in the order of CallOrder, with one zone listing
\* first, at most one write, which the decision asked for, and the
\* notification only behind a write that returned
Sequenced(r) ==
    LET calls == run[r].calls
    IN  /\ \A i \in DOMAIN calls : \E k \in DOMAIN CallOrder :
              calls[i] \in CallOrder[k]
        /\ \A i, j \in DOMAIN calls :
              i < j => CallRank(calls[i]) <= CallRank(calls[j])
        /\ calls # <<>> => calls[1] = "list_hosted_zones_by_name"
        /\ Count(calls, "list_hosted_zones_by_name") <= 1
        /\ Writes(r) <= 1
        /\ Writes(r) = 1 => Decided(r) /\ run[r].outdated
        /\ Notifications(r) <= 1
        /\ \A i \in DOMAIN calls :
              calls[i] = "publish_to_sns" =>
                  /\ i > 1
                  /\ calls[i - 1] = "change_resource_record_sets"
                  /\ run[r].write_ok

\* C14 as stated: the calls of every run are issued in the order zone listing,
\* address lookups, record-listing pages, the single write if the decision
\* asks for it, the notification after the write returned; and address
\* resolution and record inspection occur in every run that finds an owning
\* zone.
C14_ReadsInEveryRun ==
    \A r \in Runs :
        /\ Sequenced(r)
        /\ (Finished(r) /\ run[r].hosted_zone # None) =>
              Lookups(r) >= 1 /\ Listings(r) >= 1

\* C14, amended: the calls of every run are issued in that order; address
\* resolution is attempted in every run that finds an owning zone, and record
\* inspection in every such run that obtains a public address, also when the
\* decision is that no update is needed.
C14_CallOrder ==
    \A r \in Runs :
        /\ Sequenced(r)
        /\ (Finished(r) /\ run[r].hosted_zone # None) => Lookups(r) >= 1
        /\ (Finished(r) /\ run[r].actual_ip # None) => Listings(r) >= 1
        /\ (Decided(r) /\ ~run[r].outdated) =>
              /\ Lookups(r) >= 1 /\ Listings(r) >= 1
              /\ Writes(r) = 0 /\ Notifications(r) = 0

\* C14 witness: a run that needed no update has ended after a second address
\* lookup and a second page of the record listing
C14_Witness ==
    \E r \in Runs :
        /\ run[r].pc = "done"
        /\ ~run[r].outdated
        /\ Lookups(r) >= 2
        /\ Listings(r) >= 2
        /\ sns_arn # None


\* the record sets of a zone from the first one at or behind (target name,
\* 'A') on, in the order of the listing
FromTarget(recs) ==
    LET from == {i \in DOMAIN recs :
                    StartCmp(recs[i], target_record, "A") >= 0}
    IN  IF from = {} THEN <<>>
        ELSE SubSeq(recs, CHOOSE i \in from : \A j \in from : i <= j,
                    Len(recs))

\* the requests of get_current_record: the first starts at (target name,
\* 'A'), each further one follows a truncated response and starts at its
\* cursor, and nothing is requested behind a response that is not truncated
FollowsCursor(r) ==
    LET log == run[r].page_log
    IN  /\ log # <<>> =>
              /\ log[1].StartRecordName = target_record
              /\ log[1].StartRecordType = "A"
        /\ \A i \in DOMAIN log :
              i > 1 =>
                  /\ log[i - 1].IsTruncated
                  /\ log[i].StartRecordName = log[i - 1].NextRecordName
                  /\ log[i].StartRecordType = log[i - 1].NextRecordType
        /\ Len(log) <= Listings(r)
        /\ (log # <<>> /\ ~Last(log).IsTruncated) =>
              /\ run[r].pc # "get_current_record"
              /\ Listings(r) = Len(log)
        /\ (log # <<>> /\ Last(log).IsTruncated) =>
              \/ run[r].pc = "get_current_record"
              \/ run[r].pc = "raised" /\ run[r].err = "ClientError"

\* what get_current_record returns is the filter of lines 216-239 applied to
\* everything the zone lists from the target on: nothing when no 'A' record
\* set passes the filter, else value and TTL of such a set
ResultIsFilterOfListing(r) ==
    run[r].pc = "constructed" =>
        LET sets == run[r].record_sets
        IN  /\ ~Last(run[r].page_log).IsTruncated
            /\ sets = FromTarget(rrsets[run[r].hosted_zone[1]])
            /\ Matching(r) = {} =>
                  run[r].current_ip = None /\ run[r].current_ttl = None
            /\ Matching(r) # {} =>
                  \E i \in Matching(r) :
                      /\ \A j \in Matching(r) : j <= i
                      /\ run[r].current_ip = Some(sets[i].ResourceRecords[1])
                      /\ run[r].current_ttl = Some(sets[i].TTL)

\* get_current_record only reads
InspectionOnlyReads ==
    \A r \in Runs :
        run'[r].page_log # run[r].page_log =>
            /\ rrsets' = rrsets
            /\ Writes(r) = 0
            /\ run'[r].calls = Called(r, "list_resource_record_sets")

\* C15: get_current_record requests the first page at (target name, 'A'),
\* requests each further page at the cursor (next name, next type) of the
\* response before it exactly while that response is truncated, stops at the
\* first response that is not truncated, and writes nothing; what it returns
\* is the filter applied to all pages together, so the loop has ended as soon
\* as the provider has returned a page that is not truncated.
C15_PagingFollowsCursor ==
    /\ [](\A r \in Runs : FollowsCursor(r) /\ ResultIsFilterOfListing(r))
    /\ [][InspectionOnlyReads]_vars

\* C15 witness: the record was found in a listing of two pages, the second
\* requested at a cursor whose type is not 'A'
C15_Witness ==
    \E r \in Runs :
        /\ run[r].pc = "constructed"
        /\ Len(run[r].page_log) = 2
        /\ run[r].page_log[2].StartRecordType # "A"
        /\ run[r].page_log[2].Count >= 1
        /\ run[r].current_ip # None


\* the names of the zones of the account, as the keys of the zone map spell
\* them
AccountZones == {CutTrailingDot(hosted_zones[i].Name) : i \in DOMAIN hosted_zones}

\* C16: the zone listing is requested once in a run, however often the zone
\* map is consulted, and the map it fills holds every hosted zone of the
\* account, whatever their number, so that a record under a zone of the
\* account is located.
C16_ZoneMapOnceAndComplete ==
    \A r \in Runs :
        /\ Count(run[r].calls, "list_hosted_zones_by_name") <= 1
        /\ run[r].r53_hosted_zones # None =>
              /\ Count(run[r].calls, "list_hosted_zones_by_name") = 1
              /\ AccountZones \subseteq DOMAIN run[r].r53_hosted_zones[1]
              /\ (\E z \in AccountZones : IsSuffix(z, target_record)) =>
                    /\ run[r].domain_name # None
                    /\ run[r].err # "SystemExit"


\* ---- two invocations at the same time ----

\* two processes started with the same arguments; the record is absent or
\* holds one address
InitConc ==
    /\ target_record = <<"host", "a", "example", "com">>
    /\ max_tries = 1
    /\ sns_arn \in {None} \cup {Some(a) : a \in TopicArns}
    /\ ttl_arg \in {None, Some(300)}
    /\ hosted_zones = <<ZoneParent, ZoneChild>>
    /\ \E content \in {<<>>,
                       ZoneOf(<<RRSet(target_record, "A", "", 60,
                                      <<"8.8.8.8">>)>>)} :
          rrsets = [z \in ZoneIds |-> IF z = "Z2" THEN content ELSE <<>>]
    /\ run = [r \in Runs |-> IdleRun]

\* the processes share nothing but the provider: any of them takes its next
\* step at any time
NextConc ==
    \E r \in Runs :
        \/ Construct(r)
        \/ GetPublicIp(r)
        \/ GetCurrentRecord(r)
        \/ UpdateTargetRecordValue(r)
        \/ PublishToSns(r)

SpecConc == InitConc /\ [][NextConc]_vars

\* the run whose write the provider applied last
LastWriter(r) ==
    /\ run[r].write_ok
    /\ \A q \in Runs \ {r} : run[q].write_ok => q \in run[r].wrote_after

\* a write is applied whatever the record holds by then: the step of a run
\* that sends a change depends on what that run read, not on the record
WriteIgnoresRecord ==
    \A r \in Runs :
        (Writes(r) = 0 /\ Count(run'[r].calls, "change_resource_record_sets") = 1
         /\ run'[r].write_ok) =>
            LET recs == rrsets'[run[r].hosted_zone[1]]
            IN  \A i \in TargetSets(recs) :
                    /\ recs[i].ResourceRecords = <<run[r].actual_ip[1]>>
                    /\ recs[i].TTL = run'[r].ttl[1]

\* C17: two overlapping runs against the same record are not coordinated:
\* each write is applied whatever the other run did since this run's reads,
\* and the record holds what the write applied last carried
\* (last-write-wins), whichever run observed its address first.
C17_LastWriteWins ==
    /\ [](\A r \in Runs :
            LastWriter(r) =>
                LET recs == rrsets[run[r].hosted_zone[1]]
                IN  /\ Cardinality(TargetSets(recs)) = 1
                    /\ \A i \in TargetSets(recs) :
                          /\ recs[i].ResourceRecords = <<run[r].actual_ip[1]>>
                          /\ recs[i].TTL = run[r].ttl[1])
    /\ [][WriteIgnoresRecord]_vars

\* C17 witness: run 1 observed its address before run 2 observed another one,
\* run 2 wrote first, run 1 wrote last, and the record holds the address of
\* the earlier observation
C17_Witness ==
    /\ run[1].pc = "done" /\ run[2].pc = "done"
    /\ run[1].write_ok /\ run[2].write_ok
    /\ run[1].actual_ip # run[2].actual_ip
    /\ 1 \in run[2].observed_after
    /\ 2 \in run[1].wrote_after
    /\ LET recs == rrsets[run[1].hosted_zone[1]]
       IN  \A i \in TargetSets(recs) :
              recs[i].ResourceRecords = <<run[1].actual_ip[1]>>


\* the first of override, existing TTL and 60 that is given and is not 0
FirstNonZeroTtl(r) ==
    IF ttl_arg # None /\ ttl_arg[1] # 0 THEN ttl_arg[1]
    ELSE IF run[r].current_ttl # None /\ run[r].current_ttl[1] # 0
      THEN run[r].current_ttl[1]
    ELSE DefaultTtl

====
